---------------------------- MODULE Spec2Model ----------------------------
(***************************************************************************)
(* Model of src/api/yields.js: the /api/yields serverless function.        *)
(*                                                                         *)
(* Conventions                                                             *)
(*  - A JavaScript string that the code inspects (toLowerCase, includes,   *)
(*    charAt, slice, concatenation) is a sequence of one-character         *)
(*    strings; a string that is only copied and compared (chain, source)   *)
(*    is a TLA+ string.                                                    *)
(*  - apy-like numbers are fixed-point integers with FixedPoint units per  *)
(*    1.0 (5 decimals), so that toFixed(2) is a real rounding; tvl-like    *)
(*    numbers are whole dollars.                                           *)
(*  - An optional JSON member is a sequence of length 0 (absent) or 1.     *)
(*  - The updatedAt timestamps (new Date().toISOString()) are left out of  *)
(*    the records: no clock is modelled.                                   *)
(***************************************************************************)
EXTENDS Integers, Sequences, FiniteSets, TLC

VARIABLES
    method,       \* req.method of the request being handled
    hpc,          \* position of handler: "start", "await", "done"
    responses,    \* the responses written to res, in order
    defiBody,     \* what https://yields.llama.fi/pools serves when it answers
    pendleBody,   \* chain id -> what the Pendle markets endpoint serves
    defi,         \* the fetchDefiLlamaYields() call: [state, call]
    pendle,       \* the fetchPendleYields() call: [state, chain, call, allYields]
    outcomes,     \* the three promises handed to Promise.allSettled
    settleOrder,  \* history: the order in which the adapters' promises settled
    rcall,        \* a stand-alone fetchWithRetry(url, retries) call
    rlog,         \* history: the outcome of every attempt of rcall
    rserved,      \* history: the bodies served to rcall's successful attempts
    cname,        \* the argument of a stand-alone categorizeProtocol(name) call
    cout          \* what that call returned, <<>> before it has run

vars == <<method, hpc, responses, defiBody, pendleBody, defi, pendle,
          outcomes, settleOrder, rcall, rlog, rserved, cname, cout>>

handlerVars == <<method, hpc, responses, defiBody, pendleBody, defi, pendle,
                 outcomes, settleOrder>>

retryVars == <<rcall, rlog, rserved>>

categorizeVars == <<cname, cout>>

----------------------------------------------------------------------------
(* Bounds of the model *)

\* largest `retries` argument tried for a stand-alone fetchWithRetry call
MaxRetries == 4

----------------------------------------------------------------------------
(* Numbers *)

FixedPoint == 10^5

Min(a, b) == IF a <= b THEN a ELSE b

Abs(x) == IF x < 0 THEN -x ELSE x

\* Number.prototype.toFixed(2) followed by parseFloat: the nearest multiple of
\* 0.01, a tie going away from zero.
ToFixed2(x) ==
    LET step == FixedPoint \div 100
        n    == (Abs(x) + step \div 2) \div step
    IN  IF x < 0 THEN -(n * step) ELSE n * step

\* x || 0 on an optional number
OrZero(opt) == IF opt = <<>> THEN 0 ELSE opt[1]

----------------------------------------------------------------------------
(* Strings *)

UpperCase == <<"A","B","C","D","E","F","G","H","I","J","K","L","M","N","O","P","Q","R","S","T","U","V","W","X","Y","Z">>
LowerCase == <<"a","b","c","d","e","f","g","h","i","j","k","l","m","n","o","p","q","r","s","t","u","v","w","x","y","z">>

ToLowerChar(c) ==
    IF \E k \in 1..Len(UpperCase) : UpperCase[k] = c
    THEN LowerCase[CHOOSE k \in 1..Len(UpperCase) : UpperCase[k] = c]
    ELSE c

ToUpperChar(c) ==
    IF \E k \in 1..Len(LowerCase) : LowerCase[k] = c
    THEN UpperCase[CHOOSE k \in 1..Len(LowerCase) : LowerCase[k] = c]
    ELSE c

\* String.prototype.toLowerCase
ToLowerCase(s) == [k \in 1..Len(s) |-> ToLowerChar(s[k])]

\* String.prototype.includes
Includes(s, sub) ==
    \E k \in 0..(Len(s) - Len(sub)) : SubSeq(s, k + 1, k + Len(sub)) = sub

\* category.charAt(0).toUpperCase() + category.slice(1)
Capitalize(s) ==
    IF s = <<>> THEN s ELSE <<ToUpperChar(s[1])>> \o SubSeq(s, 2, Len(s))

----------------------------------------------------------------------------
(* fetchWithRetry, lines 5-16 *)

BaseDelayMs == 1000
DefaultRetries == 3

FailureKinds == {"network", "status", "parse"}

Undefined == [shape |-> "undefined"]

GetEvent(url) == [ev |-> "GET", url |-> url]
SleepEvent(ms) == [ev |-> "sleep", ms |-> ms]

\* `for (let i = 0; i < retries; i++)` entering (or re-entering) the body, or
\* falling off the end of the function
fwrLoop(c) ==
    IF c.i < c.retries
    THEN [c EXCEPT !.pc = "fetch", !.trace = Append(@, GetEvent(c.url))]
    ELSE [c EXCEPT !.pc = "returned", !.value = Undefined]

\* the call fetchWithRetry(url, retries), run up to its first await
fetchWithRetry(url, retries) ==
    fwrLoop([url |-> url, retries |-> retries, i |-> 0, pc |-> "init",
             trace |-> <<>>, value |-> Undefined, error |-> "none"])

\* the catch clause, lines 11-14
\* variant: the last attempt is not recognised, it sleeps as well
fwrCatchMutSleepsAfterLast(c, err) ==
    IF c.i = c.retries
    THEN [c EXCEPT !.pc = "thrown", !.error = err]
    ELSE [c EXCEPT !.pc = "sleep", !.error = err,
                   !.trace = Append(@, SleepEvent(BaseDelayMs * 2^(c.i)))]

\* variant: the delay does not grow with i
fwrCatchMutNoBackoff(c, err) ==
    IF c.i = c.retries - 1
    THEN [c EXCEPT !.pc = "thrown", !.error = err]
    ELSE [c EXCEPT !.pc = "sleep", !.error = err,
                   !.trace = Append(@, SleepEvent(BaseDelayMs))]

fwrCatch(c, err) ==
    IF c.i = c.retries - 1
    THEN [c EXCEPT !.pc = "thrown", !.error = err]
    ELSE [c EXCEPT !.pc = "sleep", !.error = err,
                   !.trace = Append(@, SleepEvent(BaseDelayMs * 2^(c.i)))]

\* `await fetch(url)` settles, lines 8-9: the request fails, or a response
\* arrives whose status is or is not in the success range
fwrFetchSettled(c, outcome) ==
    CASE outcome = "network" -> fwrCatch(c, "network")
      [] outcome = "status"  -> fwrCatch(c, "status")
      [] OTHER               -> [c EXCEPT !.pc = "json"]

\* `await response.json()` settles, line 10
\* variant: the parsed body is kept but not returned, the loop goes on
fwrJsonSettledMutNoReturn(c, outcome, body) ==
    IF outcome = "parse"
    THEN fwrCatch(c, "parse")
    ELSE fwrLoop([c EXCEPT !.i = @ + 1, !.value = body])

fwrJsonSettled(c, outcome, body) ==
    IF outcome = "parse"
    THEN fwrCatch(c, "parse")
    ELSE [c EXCEPT !.pc = "returned", !.value = body]

\* the backoff timer fires, line 13, and the loop goes round
fwrWake(c) == fwrLoop([c EXCEPT !.i = @ + 1])

fwrEnded(c) == c.pc \in {"returned", "thrown"}

----------------------------------------------------------------------------
(* categorizeProtocol, lines 144-159 *)

\* the `categories` table, in the order Object.entries walks it
Categories ==
    << [category |-> <<"l","e","n","d","i","n","g">>,
        keywords |-> << <<"a","a","v","e">>,
                        <<"c","o","m","p","o","u","n","d">>,
                        <<"m","o","r","p","h","o">>,
                        <<"e","u","l","e","r">>,
                        <<"s","p","a","r","k">> >>],
       [category |-> <<"d","e","x">>,
        keywords |-> << <<"u","n","i","s","w","a","p">>,
                        <<"c","u","r","v","e">>,
                        <<"b","a","l","a","n","c","e","r">>,
                        <<"v","e","l","o","d","r","o","m","e">> >>] >>

\* variant: the name is matched as spelled, line 150 is missing
categorizeProtocolMutCaseSensitive(name) ==
    LET hits == {k \in 1..Len(Categories) :
                    \E j \in 1..Len(Categories[k].keywords) :
                        Includes(name, Categories[k].keywords[j])}
    IN  IF hits = {}
        THEN <<"O","t","h","e","r">>
        ELSE Capitalize(Categories[CHOOSE k \in hits : \A h \in hits : k <= h].category)

categorizeProtocol(name) ==
    LET lowerName == ToLowerCase(name)
        hits == {k \in 1..Len(Categories) :
                    \E j \in 1..Len(Categories[k].keywords) :
                        Includes(lowerName, Categories[k].keywords[j])}
    IN  IF hits = {}
        THEN <<"O","t","h","e","r">>
        ELSE Capitalize(Categories[CHOOSE k \in hits : \A h \in hits : k <= h].category)

----------------------------------------------------------------------------
(* Sequence helpers standing for Array.prototype methods *)

\* Array.prototype.slice(from, to), 0-based, end exclusive
Slice(s, from, to) == SubSeq(s, from + 1, Min(to, Len(s)))

----------------------------------------------------------------------------
(* fetchDefiLlamaYields, lines 19-49 *)

DefiUrl == <<"https://yields.llama.fi/pools">>

MinTvlUsd == 1000000
MaxApy == 200
DefiLimit == 30

\* the filter predicate, lines 24-28
DefiKeep(pool) ==
    /\ pool.stablecoin = TRUE
    /\ pool.tvlUsd > MinTvlUsd
    /\ pool.apy < MaxApy * FixedPoint

\* the object literal of lines 30-42
DefiRecord(pool) ==
    [protocol   |-> pool.project,
     stablecoin |-> pool.symbol,
     chain      |-> pool.chain,
     apy        |-> ToFixed2(pool.apy),
     tvl        |-> pool.tvlUsd,
     apyBase    |-> OrZero(pool.apyBase),
     apyReward  |-> OrZero(pool.apyReward),
     type       |-> categorizeProtocol(pool.project),
     source     |-> "defillama",
     url        |-> <<"https://defillama.com/yields?token=", pool.symbol,
                      "&chain=", pool.chain>>]

\* .slice(0, 30), line 29
\* variant: one pool too many
DefiSliceMutOffByOne(pools) == Slice(pools, 0, DefiLimit + 1)

DefiSlice(pools) == Slice(pools, 0, DefiLimit)

\* lines 23-42 on the parsed body: the list of records, or a TypeError when
\* body.data is not there to be filtered
DefiTransform(body) ==
    IF body.shape = "ok"
    THEN LET kept == DefiSlice(SelectSeq(body.list, DefiKeep))
         IN  [threw |-> FALSE,
              value |-> [k \in 1..Len(kept) |-> DefiRecord(kept[k])]]
    ELSE [threw |-> TRUE, value |-> <<>>]

\* fetchDefiLlamaYields before it is called, and called: line 21, up to the await
DefiIdle == [state |-> "idle", call |-> Undefined]

fetchDefiLlamaYields == [state |-> "running", call |-> fetchWithRetry(DefiUrl, DefaultRetries)]

\* fetchDefiLlamaYields resumed with the new state c of its fetchWithRetry call
DefiResume(d, c) ==
    [state |-> IF fwrEnded(c) THEN "done" ELSE "running", call |-> c]

\* what the promise of fetchDefiLlamaYields() settles to once its
\* fetchWithRetry call c has ended: lines 21-48. The value is an optional
\* (<<>> is undefined).
\* variant: the catch clause returns nothing
DefiSettleMutNoReturn(c) ==
    IF c.pc = "thrown" \/ DefiTransform(c.value).threw
    THEN [status |-> "fulfilled", value |-> <<>>]
    ELSE [status |-> "fulfilled", value |-> << DefiTransform(c.value).value >>]

DefiSettle(c) ==
    IF c.pc = "thrown" \/ DefiTransform(c.value).threw
    THEN [status |-> "fulfilled", value |-> << <<>> >>]
    ELSE [status |-> "fulfilled", value |-> << DefiTransform(c.value).value >>]

----------------------------------------------------------------------------
(* fetchPendleYields, lines 52-99 *)

\* the `chains` array, lines 54-57
\* variant: Arbitrum ahead of Ethereum
ChainsMutReversed == << [id |-> 42161, name |-> "Arbitrum"], [id |-> 1, name |-> "Ethereum"] >>

Chains == << [id |-> 1, name |-> "Ethereum"], [id |-> 42161, name |-> "Arbitrum"] >>

ChainIds == {Chains[k].id : k \in 1..Len(Chains)}

PendleUrl(chain) == <<"https://api-v2.pendle.finance/core/v1/", chain.id, "/markets">>

MinLiquidity == 1000000
PendleLimit == 5

\* the filter predicate, lines 69-72
\* variant: the symbol is not looked at
PendleKeepMutNoSymbolCheck(market) ==
    market.totalActiveLiquidity > MinLiquidity

PendleKeep(market) ==
    /\ Includes(market.underlyingAsset.symbol, <<"U","S","D">>)
    /\ market.totalActiveLiquidity > MinLiquidity

\* the object literal of lines 75-86; market.pt.symbol is read first
PendleRecord(market, chain) ==
    [protocol   |-> <<"P","e","n","d","l","e"," ">> \o market.pt[1].symbol,
     stablecoin |-> market.underlyingAsset.symbol,
     chain      |-> chain.name,
     apy        |-> ToFixed2(market.impliedApy * 100),
     tvl        |-> market.totalActiveLiquidity,
     type       |-> <<"F","i","x","e","d"," ","Y","i","e","l","d">>,
     source     |-> "pendle",
     maturity   |-> market.expiry,
     url        |-> <<"https://app.pendle.finance/">>]

\* .forEach(market => allYields.push(...)), lines 74-87: pushes in order and
\* stops at the first market whose pt is missing (TypeError), keeping what
\* was pushed before it
RECURSIVE PendleForEach(_, _, _)
PendleForEach(allYields, markets, chain) ==
    IF markets = <<>>
    THEN [threw |-> FALSE, allYields |-> allYields]
    ELSE IF Head(markets).pt = <<>>
         THEN [threw |-> TRUE, allYields |-> allYields]
         ELSE PendleForEach(Append(allYields, PendleRecord(Head(markets), chain)),
                            Tail(markets), chain)

\* .slice(0, 5), line 73
PendleSlice(markets) == Slice(markets, 0, PendleLimit)

\* the body of the inner try for one chain once its fetchWithRetry call c has
\* ended, with the inner catch: lines 63-91. Returns the new allYields.
PendleChainDone(allYields, chain, c) ==
    CASE c.pc = "thrown"              -> allYields
      [] c.value.shape \in {"null", "undefined"}
                                      -> allYields   \* data.results: TypeError
      [] c.value.shape = "noresults"  -> allYields   \* if (data.results) is false
      [] OTHER ->
            PendleForEach(allYields,
                          PendleSlice(SelectSeq(c.value.list, PendleKeep)),
                          chain).allYields

\* fetchPendleYields before it is called
PendleIdle ==
    [state |-> "idle", k |-> 0, call |-> Undefined, allYields |-> <<>>, ended |-> <<>>]

\* the for-of loop going round after chain p.k: the next chain's fetch is
\* issued, or the function returns allYields (line 94)
PendleNext(p, allYields) ==
    IF p.k < Len(Chains)
    THEN [p EXCEPT !.state = "running", !.k = p.k + 1,
                   !.call = fetchWithRetry(PendleUrl(Chains[p.k + 1]), DefaultRetries),
                   !.allYields = allYields]
    ELSE [p EXCEPT !.state = "done", !.allYields = allYields]

\* fetchPendleYields() called: lines 54-63, up to the first await
fetchPendleYields == PendleNext(PendleIdle, <<>>)

\* variant: without the inner try / catch, a failed fetch goes to the outer
\* catch, which returns []
PendleResumeMutNoInnerCatch(p, c) ==
    IF c.pc = "thrown"
    THEN [p EXCEPT !.state = "done", !.call = c, !.allYields = <<>>,
                   !.ended = Append(@, [id |-> Chains[p.k].id, pc |-> c.pc, trace |-> c.trace])]
    ELSE IF fwrEnded(c)
    THEN PendleNext([p EXCEPT !.call = c,
                              !.ended = Append(@, [id |-> Chains[p.k].id, pc |-> c.pc, trace |-> c.trace])],
                    PendleChainDone(p.allYields, Chains[p.k], c))
    ELSE [p EXCEPT !.call = c]

\* fetchPendleYields resumed with the new state c of its fetchWithRetry call;
\* `ended` is history: how each chain's call ended, and the requests and
\* sleeps it made
PendleResume(p, c) ==
    IF fwrEnded(c)
    THEN PendleNext([p EXCEPT !.call = c,
                              !.ended = Append(@, [id |-> Chains[p.k].id, pc |-> c.pc, trace |-> c.trace])],
                    PendleChainDone(p.allYields, Chains[p.k], c))
    ELSE [p EXCEPT !.call = c]

\* what the promise of fetchPendleYields() settles to when it returns
PendleSettle(p) == [status |-> "fulfilled", value |-> << p.allYields >>]

----------------------------------------------------------------------------
(* getManualYieldData, lines 102-141 *)

getManualYieldData ==
    << [protocol    |-> <<"M","i","d","a","s"," ","m","T","B","I","L","L">>,
        stablecoin  |-> <<"U","S","D","C">>,
        chain       |-> "Ethereum",
        apy         |-> 525 * (FixedPoint \div 100),
        tvl         |-> 45000000,
        type        |-> <<"R","W","A">>,
        source      |-> "midas",
        description |-> "BlackRock Treasury Bond backed",
        url         |-> <<"https://midas.app/">>],
       [protocol    |-> <<"G","a","u","n","t","l","e","t"," ","U","S","D"," ","A","l","p","h","a">>,
        stablecoin  |-> <<"U","S","D","C">>,
        chain       |-> "Multi-chain",
        apy         |-> 850 * (FixedPoint \div 100),
        tvl         |-> 250000000,
        type        |-> <<"R","i","s","k","-","M","a","n","a","g","e","d">>,
        source      |-> "gauntlet",
        description |-> "Institutional-grade risk-adjusted yield",
        url         |-> <<"https://www.gauntlet.xyz/">>],
       [protocol    |-> <<"Y","i","e","l","d","F","i"," ","y","U","S","D">>,
        stablecoin  |-> <<"U","S","D","C","/","U","S","D","T">>,
        chain       |-> "Multi-chain",
        apy         |-> 2350 * (FixedPoint \div 100),
        tvl         |-> 121000000,
        type        |-> <<"M","u","l","t","i","-","S","t","r","a","t","e","g","y">>,
        source      |-> "yieldfi",
        description |-> "Professional asset management",
        url         |-> <<"https://yield.fi/">>] >>

----------------------------------------------------------------------------
(* handler, lines 162-228 *)

CorsHeaders ==
    [AccessControlAllowOrigin  |-> "*",
     AccessControlAllowMethods |-> "GET, OPTIONS",
     AccessControlAllowHeaders |-> "Content-Type",
     CacheControl              |-> "s-maxage=300, stale-while-revalidate"]

Pending == [status |-> "pending", value |-> <<>>]

\* `await Promise.allSettled([...])` can resume: every promise has settled
\* variant: resumes as soon as one adapter has settled
AllSettledMutAnySettled(outs) ==
    \E k \in 1..2 : outs[k].status # "pending"

AllSettled(outs) ==
    \A k \in 1..Len(outs) : outs[k].status # "pending"

\* `x.status === 'fulfilled' ? x.value : []`, lines 194-196; the result is an
\* optional value: <<>> is undefined
\* variant: the test of the status is inverted
PickValueMutInverted(r) == IF r.status = "rejected" THEN r.value ELSE << <<>> >>

PickValue(r) == IF r.status = "fulfilled" THEN r.value ELSE << <<>> >>

\* the array literal with three spreads, lines 193-197; spreading undefined
\* throws a TypeError
\* variant: the third spread is missing
CombineYieldsMutNoManual(outs) ==
    IF \E k \in 1..2 : PickValue(outs[k]) = <<>>
    THEN [threw |-> TRUE, allYields |-> <<>>]
    ELSE [threw |-> FALSE,
          allYields |-> PickValue(outs[1])[1] \o PickValue(outs[2])[1]]

\* variant: the first two spreads are swapped
CombineYieldsMutPendleFirst(outs) ==
    IF \E k \in 1..3 : PickValue(outs[k]) = <<>>
    THEN [threw |-> TRUE, allYields |-> <<>>]
    ELSE [threw |-> FALSE,
          allYields |-> PickValue(outs[2])[1] \o PickValue(outs[1])[1]
                            \o PickValue(outs[3])[1]]

CombineYields(outs) ==
    IF \E k \in 1..3 : PickValue(outs[k]) = <<>>
    THEN [threw |-> TRUE, allYields |-> <<>>]
    ELSE [threw |-> FALSE,
          allYields |-> PickValue(outs[1])[1] \o PickValue(outs[2])[1]
                            \o PickValue(outs[3])[1]]

\* reduce((sum, y) => sum + y, 0)
RECURSIVE SumFrom(_, _, _)
SumFrom(sum, s, k) == IF k > Len(s) THEN sum ELSE SumFrom(sum + s[k], s, k + 1)

Sum(s) == SumFrom(0, s, 1)

\* Math.max(...s) and Math.min(...s) of a non-empty array
MathMax(s) == CHOOSE x \in {s[k] : k \in 1..Len(s)} : \A k \in 1..Len(s) : s[k] <= x
MathMin(s) == CHOOSE x \in {s[k] : k \in 1..Len(s)} : \A k \in 1..Len(s) : x <= s[k]

\* [...new Set(s)]: the distinct values in order of first occurrence
Distinct(s) ==
    LET firsts == {k \in 1..Len(s) : \A j \in 1..(k - 1) : s[j] # s[k]}
    IN  [i \in 1..Cardinality(firsts) |->
            s[CHOOSE k \in firsts : Cardinality({j \in firsts : j < k}) = i - 1]]

\* allYields.map(y => y.apy), .map(y => y.tvl), .map(y => y.source), .map(y => y.chain)
Apys(allYields) == [k \in 1..Len(allYields) |-> allYields[k].apy]
Tvls(allYields) == [k \in 1..Len(allYields) |-> allYields[k].tvl]
SourcesOfAll(allYields) == [k \in 1..Len(allYields) |-> allYields[k].source]
ChainsOfAll(allYields) == [k \in 1..Len(allYields) |-> allYields[k].chain]

\* a quotient of two numbers, kept exact
Quotient(num, den) == [num |-> num, den |-> den]

\* avgAPY, lines 203-205
\* variant: divides by one less than the number of records
AvgApyMutOffByOne(allYields) ==
    IF Len(allYields) > 0
    THEN Quotient(Sum(Apys(allYields)), Len(allYields) - 1)
    ELSE Quotient(0, 1)

AvgApy(allYields) ==
    IF Len(allYields) > 0
    THEN Quotient(Sum(Apys(allYields)), Len(allYields))
    ELSE Quotient(0, 1)

\* [...new Set(allYields.map(y => y.source))], line 208
\* variant: without the Set
SourcesMutNoSet(allYields) == SourcesOfAll(allYields)

Sources(allYields) == Distinct(SourcesOfAll(allYields))

\* [...new Set(allYields.map(y => y.chain))], line 209
ChainsOf(allYields) == Distinct(ChainsOfAll(allYields))

\* the stats object, lines 200-211
Stats(allYields) ==
    [totalOpportunities |-> Len(allYields),
     totalTVL |-> Sum(Tvls(allYields)),
     avgAPY   |-> AvgApy(allYields),
     maxAPY   |-> IF Len(allYields) > 0 THEN MathMax(Apys(allYields)) ELSE 0,
     minAPY   |-> IF Len(allYields) > 0 THEN MathMin(Apys(allYields)) ELSE 0,
     sources  |-> Sources(allYields),
     chains   |-> ChainsOf(allYields)]

Response(status, json) == [status |-> status, headers |-> CorsHeaders, json |-> json]

\* the try block after the await and its catch, lines 192-227
HandlerRespond(outs) ==
    LET combined == CombineYields(outs)
    IN  IF combined.threw
        THEN Response(500, << [success |-> FALSE,
                               error   |-> "Failed to fetch yield data",
                               message |-> "undefined is not iterable"] >>)
        ELSE Response(200, << [success |-> TRUE,
                               data    |-> combined.allYields,
                               stats   |-> Stats(combined.allYields)] >>)

----------------------------------------------------------------------------
(* The upstream services: what they can serve *)

\* largest pool list served by DeFiLlama, largest market list served by Pendle
MaxPools == 40
MaxMarkets == 8

USDC == <<"U","S","D","C">>
DAI == <<"D","A","I">>

Pool(project, symbol, chain, stablecoin, tvlUsd, apy, apyBase, apyReward) ==
    [project |-> project, symbol |-> symbol, chain |-> chain,
     stablecoin |-> stablecoin, tvlUsd |-> tvlUsd, apy |-> apy,
     apyBase |-> apyBase, apyReward |-> apyReward]

\* pools that pass the filter: an ordinary one, a negative apy, an apy and a
\* tvl just inside the limits, an apy that rounds up to 200.00
GoodPools ==
    << Pool(<<"A","a","v","e"," ","V","3">>, USDC, "Ethereum", TRUE,
            5000000, 525400, <<500000>>, <<25400>>),
       Pool(<<"C","U","R","V","E">>, DAI, "Arbitrum", TRUE,
            3000000, -150600, <<>>, <<>>),
       Pool(<<"U","n","i","s","w","a","p"," ","V","3">>, <<"U","S","D","T">>, "Base", TRUE,
            MinTvlUsd + 1, 19999400, <<19999400>>, <<0>>),
       Pool(<<"S","p","a","r","k"," ","C","u","r","v","e">>, USDC, "Ethereum", TRUE,
            2000000, 19999600, <<>>, <<19999600>>) >>

\* pools that do not: not a stablecoin pool, tvl at the limit, apy at the
\* limit, apy above it
BadPools ==
    << Pool(<<"S","k","y">>, DAI, "Ethereum", FALSE, 9000000, 400000, <<>>, <<>>),
       Pool(<<"A","a","v","e"," ","V","3">>, USDC, "Base", TRUE,
            MinTvlUsd, 300000, <<300000>>, <<>>),
       Pool(<<"M","o","r","p","h","o"," ","B","l","u","e">>, USDC, "Ethereum", TRUE,
            4000000, MaxApy * FixedPoint, <<>>, <<>>),
       Pool(<<"C","U","R","V","E">>, DAI, "Ethereum", TRUE,
            4000000, 250 * FixedPoint, <<>>, <<>>) >>

\* a list of n pools: every period-th one is a bad pool, the others are good
\* pools whose tvl decreases down the list
DefiList(n, period, shift) ==
    [i \in 1..n |->
        IF period > 0 /\ i % period = 0
        THEN BadPools[(((i \div period) + shift) % Len(BadPools)) + 1]
        ELSE [GoodPools[((i + shift) % Len(GoodPools)) + 1] EXCEPT !.tvlUsd = @ + (n - i)]]

DefiOk(list) == [shape |-> "ok", list |-> list]

\* a body without a data member
DefiNoData == [shape |-> "nodata"]

Market(pt, underlying, liquidity, impliedApy) ==
    [pt |-> pt, underlyingAsset |-> [symbol |-> underlying],
     totalActiveLiquidity |-> liquidity, impliedApy |-> impliedApy,
     expiry |-> "2026-12-31T00:00:00.000Z"]

GoodMarkets ==
    << Market(<< [symbol |-> <<"P","T","-","s","U","S","D","e">>] >>,
              <<"s","U","S","D","e">>, 3000000, 12346),
       Market(<< [symbol |-> <<"P","T","-","U","S","D","0">>] >>,
              USDC, MinLiquidity + 1, 5001),
       Market(<< [symbol |-> <<"P","T","-","U","S","D","e">>] >>,
              <<"U","S","D","e">>, 8000000, -1002) >>

\* no "USD" in the symbol, "usd" in lower case, liquidity at the limit
BadMarkets ==
    << Market(<< [symbol |-> <<"P","T","-","D","A","I">>] >>, DAI, 5000000, 4000),
       Market(<< [symbol |-> <<"P","T","-","u","s","d","c">>] >>,
              <<"u","s","d","c">>, 5000000, 4000),
       Market(<< [symbol |-> <<"P","T","-","U","S","D","T">>] >>,
              <<"U","S","D","T">>, MinLiquidity, 4000) >>

\* a market that passes the filter and has no pt member
BrokenMarket == Market(<<>>, USDC, 2000000, 3000)

\* a list of n markets: the broken one at position `broken` (0: nowhere),
\* every period-th one a bad market, the others good markets
PendleList(n, period, shift, broken) ==
    [i \in 1..n |->
        IF i = broken THEN BrokenMarket
        ELSE IF period > 0 /\ i % period = 0
        THEN BadMarkets[(((i \div period) + shift) % Len(BadMarkets)) + 1]
        ELSE [GoodMarkets[((i + shift) % Len(GoodMarkets)) + 1]
                 EXCEPT !.totalActiveLiquidity = @ + (n - i)]]

PendleOk(list) == [shape |-> "ok", list |-> list]

\* a body without a results member, and the body `null`
PendleNoResults == [shape |-> "noresults"]
PendleNull == [shape |-> "null"]

----------------------------------------------------------------------------
(* One request handled by handler(req, res) *)

Methods == {"GET", "OPTIONS", "POST"}

DefiBodies == {DefiNoData, DefiOk(DefiList(3, 2, 0)), DefiOk(DefiList(4, 3, 3))}

PendleBodies ==
    {PendleNoResults, PendleNull,
     PendleOk(PendleList(3, 2, 0, 0)), PendleOk(PendleList(3, 0, 1, 2))}

RetryIdle == [pc |-> "idle"]

Init ==
    /\ method \in Methods
    /\ hpc = "start"
    /\ responses = <<>>
    /\ defiBody \in DefiBodies
    /\ pendleBody \in [ChainIds -> PendleBodies]
    /\ defi = DefiIdle
    /\ pendle = PendleIdle
    /\ outcomes = <<Pending, Pending, Pending>>
    /\ settleOrder = <<>>
    /\ rcall = RetryIdle
    /\ rlog = <<>>
    /\ rserved = <<>>
    /\ cname = <<>>
    /\ cout = <<>>

\* the dispatch on req.method, lines 170 and 176
\* variant: the test of line 176 is missing
DispatchMutNoGetCheck(m) ==
    IF m = "OPTIONS" THEN "preflight" ELSE "aggregate"

Dispatch(m) ==
    IF m = "OPTIONS" THEN "preflight"
    ELSE IF m # "GET" THEN "notAllowed"
    ELSE "aggregate"

\* lines 170-173
HandleOptions ==
    /\ hpc = "start"
    /\ Dispatch(method) = "preflight"
    /\ responses' = Append(responses, Response(200, <<>>))
    /\ hpc' = "done"
    /\ UNCHANGED <<method, defiBody, pendleBody, defi, pendle, outcomes, settleOrder>>
    /\ UNCHANGED <<retryVars, categorizeVars>>

\* lines 176-182
HandleOtherMethod ==
    /\ hpc = "start"
    /\ Dispatch(method) = "notAllowed"
    /\ responses' = Append(responses,
                           Response(405, << [success |-> FALSE,
                                             error   |-> "Method not allowed"] >>))
    /\ hpc' = "done"
    /\ UNCHANGED <<method, defiBody, pendleBody, defi, pendle, outcomes, settleOrder>>
    /\ UNCHANGED <<retryVars, categorizeVars>>

\* lines 186-190: the three adapters are called in turn, each running up to
\* its first await, and the handler awaits Promise.allSettled
HandleGet ==
    /\ hpc = "start"
    /\ Dispatch(method) = "aggregate"
    /\ defi' = fetchDefiLlamaYields
    /\ pendle' = fetchPendleYields
    /\ outcomes' = <<Pending, Pending,
                     [status |-> "fulfilled", value |-> <<getManualYieldData>>]>>
    /\ settleOrder' = <<3>>
    /\ hpc' = "await"
    /\ UNCHANGED <<method, responses, defiBody, pendleBody>>
    /\ UNCHANGED <<retryVars, categorizeVars>>

\* An adapter suspended at an await of its fetchWithRetry call (lines 8, 10
\* and 13) resumes when its own promise settles: fetch, json and the
\* setTimeout of line 13 hand control back to the event loop, so the sibling
\* adapter's position plays no part.
\* variant: the backoff sleep of line 13 blocks the thread
RunnableMutBlockingSleep(a, sibling) ==
    /\ a.state = "running"
    /\ ~(sibling.state = "running" /\ sibling.call.pc = "sleep")

Runnable(a, sibling) == a.state = "running"

\* fetchDefiLlamaYields continues with its fetchWithRetry call in state c
DefiContinue(c) ==
    /\ defi' = DefiResume(defi, c)
    /\ IF fwrEnded(c)
       THEN /\ outcomes' = [outcomes EXCEPT ![1] = DefiSettle(c)]
            /\ settleOrder' = Append(settleOrder, 1)
       ELSE UNCHANGED <<outcomes, settleOrder>>
    /\ UNCHANGED <<method, hpc, responses, defiBody, pendleBody, pendle>>
    /\ UNCHANGED <<retryVars, categorizeVars>>

DefiFetchSettles ==
    /\ Runnable(defi, pendle)
    /\ defi.call.pc = "fetch"
    /\ \E outcome \in {"network", "status", "ok"} :
          DefiContinue(fwrFetchSettled(defi.call, outcome))

DefiJsonSettles ==
    /\ Runnable(defi, pendle)
    /\ defi.call.pc = "json"
    /\ \E outcome \in {"parse", "ok"} :
          DefiContinue(fwrJsonSettled(defi.call, outcome, defiBody))

DefiWakes ==
    /\ Runnable(defi, pendle)
    /\ defi.call.pc = "sleep"
    /\ DefiContinue(fwrWake(defi.call))

\* fetchPendleYields continues with its fetchWithRetry call in state c
PendleContinue(c) ==
    /\ pendle' = PendleResume(pendle, c)
    /\ IF pendle'.state = "done"
       THEN /\ outcomes' = [outcomes EXCEPT ![2] = PendleSettle(pendle')]
            /\ settleOrder' = Append(settleOrder, 2)
       ELSE UNCHANGED <<outcomes, settleOrder>>
    /\ UNCHANGED <<method, hpc, responses, defiBody, pendleBody, defi>>
    /\ UNCHANGED <<retryVars, categorizeVars>>

PendleFetchSettles ==
    /\ Runnable(pendle, defi)
    /\ pendle.call.pc = "fetch"
    /\ \E outcome \in {"network", "status", "ok"} :
          PendleContinue(fwrFetchSettled(pendle.call, outcome))

PendleJsonSettles ==
    /\ Runnable(pendle, defi)
    /\ pendle.call.pc = "json"
    /\ \E outcome \in {"parse", "ok"} :
          PendleContinue(fwrJsonSettled(pendle.call, outcome,
                                        pendleBody[Chains[pendle.k].id]))

PendleWakes ==
    /\ Runnable(pendle, defi)
    /\ pendle.call.pc = "sleep"
    /\ PendleContinue(fwrWake(pendle.call))

\* the await of line 186 resumes: lines 192-227
HandlerResumes ==
    /\ hpc = "await"
    /\ AllSettled(outcomes)
    /\ responses' = Append(responses, HandlerRespond(outcomes))
    /\ hpc' = "done"
    /\ UNCHANGED <<method, defiBody, pendleBody, defi, pendle, outcomes, settleOrder>>
    /\ UNCHANGED <<retryVars, categorizeVars>>

Next ==
    \/ HandleOptions
    \/ HandleOtherMethod
    \/ HandleGet
    \/ DefiFetchSettles
    \/ DefiJsonSettles
    \/ DefiWakes
    \/ PendleFetchSettles
    \/ PendleJsonSettles
    \/ PendleWakes
    \/ HandlerResumes

Spec == Init /\ [][Next]_vars

\* The handler with its scheduling: a request in flight is eventually
\* answered or fails, a timer eventually fires (line 13), and the event loop
\* eventually runs a continuation that is ready.
InitFair ==
    /\ Init
    /\ defiBody \in {DefiNoData, DefiOk(DefiList(3, 2, 0))}
    /\ pendleBody \in [ChainIds -> {PendleNull, PendleOk(PendleList(3, 0, 1, 2))}]

SpecFair == InitFair /\ [][Next]_vars /\ WF_vars(Next)

----------------------------------------------------------------------------
(* A stand-alone call fetchWithRetry(url, retries) *)

RetryUrls == {DefiUrl, PendleUrl(Chains[1])}

RetryBodies == {DefiNoData, DefiOk(DefiList(2, 0, 0))}

InitRetry ==
    /\ method = "GET"
    /\ hpc = "off"
    /\ responses = <<>>
    /\ defiBody = DefiNoData
    /\ pendleBody = [id \in ChainIds |-> PendleNoResults]
    /\ defi = DefiIdle
    /\ pendle = PendleIdle
    /\ outcomes = <<Pending, Pending, Pending>>
    /\ settleOrder = <<>>
    /\ \E url \in RetryUrls, retries \in 1..MaxRetries :
          rcall = fetchWithRetry(url, retries)
    /\ rlog = <<>>
    /\ rserved = <<>>
    /\ cname = <<>>
    /\ cout = <<>>

RetryFetchSettles ==
    /\ rcall.pc = "fetch"
    /\ \E outcome \in {"network", "status", "ok"} :
          /\ rcall' = fwrFetchSettled(rcall, outcome)
          /\ rlog' = IF outcome = "ok" THEN rlog ELSE Append(rlog, outcome)
    /\ UNCHANGED rserved
    /\ UNCHANGED <<handlerVars, categorizeVars>>

RetryJsonSettles ==
    /\ rcall.pc = "json"
    /\ \E outcome \in {"parse", "ok"}, body \in RetryBodies :
          /\ rcall' = fwrJsonSettled(rcall, outcome, body)
          /\ rlog' = Append(rlog, outcome)
          /\ rserved' = IF outcome = "ok" THEN Append(rserved, body) ELSE rserved
    /\ UNCHANGED <<handlerVars, categorizeVars>>

RetryWakes ==
    /\ rcall.pc = "sleep"
    /\ rcall' = fwrWake(rcall)
    /\ UNCHANGED <<rlog, rserved>>
    /\ UNCHANGED <<handlerVars, categorizeVars>>

NextRetry ==
    \/ RetryFetchSettles
    \/ RetryJsonSettles
    \/ RetryWakes

SpecRetry == InitRetry /\ [][NextRetry]_vars

----------------------------------------------------------------------------
(* The adapters on the bodies the upstream services can serve: every fetch *)
(* is answered at the first attempt                                        *)

\* a fetchWithRetry call c answered with `body` at its first attempt
FirstTry(c, body) == fwrJsonSettled(fwrFetchSettled(c, "ok"), "ok", body)

InitAdapters ==
    /\ method = "GET"
    /\ hpc = "await"
    /\ responses = <<>>
    /\ \/ /\ \E n \in 0..MaxPools, period \in {0, 2, 5}, shift \in 0..3 :
                defiBody = DefiOk(DefiList(n, period, shift))
          /\ pendleBody = [id \in ChainIds |-> PendleNoResults]
       \/ /\ defiBody = DefiNoData
          /\ \E n1 \in 0..MaxMarkets, n2 \in 0..MaxMarkets, period \in {0, 2, 3},
                shift \in 0..2, broken \in {0, 2, 6} :
                pendleBody = [id \in ChainIds |->
                                IF id = 1
                                THEN PendleOk(PendleList(n1, period, shift, broken))
                                ELSE PendleOk(PendleList(n2, period, shift + 1, 0))]
    /\ defi = fetchDefiLlamaYields
    /\ pendle = fetchPendleYields
    /\ outcomes = <<Pending, Pending,
                    [status |-> "fulfilled", value |-> <<getManualYieldData>>]>>
    /\ settleOrder = <<3>>
    /\ rcall = RetryIdle
    /\ rlog = <<>>
    /\ rserved = <<>>
    /\ cname = <<>>
    /\ cout = <<>>

DefiAnswered ==
    /\ defi.state = "running"
    /\ DefiContinue(FirstTry(defi.call, defiBody))

PendleAnswered ==
    /\ pendle.state = "running"
    /\ PendleContinue(FirstTry(pendle.call, pendleBody[Chains[pendle.k].id]))

NextAdapters ==
    \/ DefiAnswered
    \/ PendleAnswered

SpecAdapters == InitAdapters /\ [][NextAdapters]_vars

----------------------------------------------------------------------------
(* A stand-alone call categorizeProtocol(name) *)

\* words protocol names are made of: the keywords of both tables, words that
\* match no keyword, and keywords cut short
NameWords ==
    << <<"a","a","v","e">>, <<"c","o","m","p","o","u","n","d">>,
       <<"m","o","r","p","h","o">>, <<"e","u","l","e","r">>,
       <<"s","p","a","r","k">>, <<"u","n","i","s","w","a","p">>,
       <<"c","u","r","v","e">>, <<"b","a","l","a","n","c","e","r">>,
       <<"v","e","l","o","d","r","o","m","e">>, <<"p","e","n","d","l","e">>,
       <<"r","a","n","d","o","m">>, <<"c","u","r","v">>, <<"a","v","e">>,
       <<"v","3">> >>

ToUpperCase(s) == [k \in 1..Len(s) |-> ToUpperChar(s[k])]

\* a name in one of three spellings: lower case, upper case, capitalised
Spelled(s, spelling) ==
    CASE spelling = "lower" -> s
      [] spelling = "upper" -> ToUpperCase(s)
      [] OTHER -> Capitalize(s)

Spellings == {"lower", "upper", "capitalised"}

\* one word, two words run together, or two words with a blank between
ProtocolNames ==
    {Spelled(NameWords[a], sp) : a \in 1..Len(NameWords), sp \in Spellings}
    \cup {Spelled(NameWords[a], sp) \o Spelled(NameWords[b], sq) :
             a \in 1..Len(NameWords), b \in 1..Len(NameWords),
             sp \in Spellings, sq \in {"lower", "capitalised"}}
    \cup {Spelled(NameWords[a] \o <<" ">> \o NameWords[b], sp) :
             a \in 1..Len(NameWords), b \in 1..Len(NameWords), sp \in Spellings}

InitCategorize ==
    /\ method = "GET"
    /\ hpc = "off"
    /\ responses = <<>>
    /\ defiBody = DefiNoData
    /\ pendleBody = [id \in ChainIds |-> PendleNoResults]
    /\ defi = DefiIdle
    /\ pendle = PendleIdle
    /\ outcomes = <<Pending, Pending, Pending>>
    /\ settleOrder = <<>>
    /\ rcall = RetryIdle
    /\ rlog = <<>>
    /\ rserved = <<>>
    /\ cname \in ProtocolNames
    /\ cout = <<>>

\* lines 144-159
Categorize ==
    /\ cout = <<>>
    /\ cout' = << categorizeProtocol(cname) >>
    /\ UNCHANGED cname
    /\ UNCHANGED <<handlerVars, retryVars>>

NextCategorize == Categorize

SpecCategorize == InitCategorize /\ [][NextCategorize]_vars

----------------------------------------------------------------------------
(* Properties *)

\* a GET request has been answered
GetAnswered == method = "GET" /\ hpc = "done"

\* the body of the (first) response, and its data and stats
Body == responses[1].json[1]
Data == Body.data
ResponseStats == Body.stats

BySource(data, src) == SelectSeq(data, LAMBDA y : y.source = src)

ManualSources == {"midas", "gauntlet", "yieldfi"}
FromManual(data) == SelectSeq(data, LAMBDA y : y.source \in ManualSources)

\* the DeFiLlama adapter's call failed: its fetch failed to the last attempt,
\* or the body it got has not the shape { data: [...] }
DefiFailed ==
    /\ defi.state = "done"
    /\ defi.call.pc = "thrown" \/ defi.call.value.shape # "ok"

\* every fetch of the Pendle adapter failed to the last attempt
PendleOutage ==
    /\ pendle.state = "done"
    /\ \A k \in 1..Len(pendle.ended) : pendle.ended[k].pc = "thrown"

\* C1: whatever the upstream outcomes, a GET is answered once, with HTTP 200
\* and success = true, never 500; when the DeFiLlama adapter's call failed,
\* data is exactly the Pendle adapter's records followed by the Manual ones,
\* and when the Pendle fetches all failed, data holds no Pendle record while
\* the DeFiLlama and Manual records are all there.
C1_AlwaysAnswers200 ==
    GetAnswered =>
        /\ Len(responses) = 1
        /\ responses[1].status = 200
        /\ Body.success = TRUE
        /\ FromManual(Data) = getManualYieldData
        /\ BySource(Data, "pendle") = pendle.allYields
        /\ DefiFailed => Data = pendle.allYields \o getManualYieldData
        /\ PendleOutage =>
              /\ BySource(Data, "pendle") = <<>>
              /\ Len(Data) = Len(BySource(Data, "defillama")) + 3
        /\ (~DefiFailed) =>
              Len(BySource(Data, "defillama"))
                  = Min(DefiLimit, Len(SelectSeq(defiBody.list, DefiKeep)))

\* the DeFiLlama fetch failed three times, Pendle delivered records, and the
\* request was answered
C1_Witness ==
    /\ GetAnswered
    /\ defi.call.pc = "thrown"
    /\ responses[1].status = 200
    /\ Len(BySource(Data, "pendle")) > 0

\* the events a call leaves when all of its `retries` attempts fail: a GET
\* per attempt, and after failed attempt i (0-based) a sleep of 1000 * 2^i ms
\* unless it was the last one
ExhaustedTrace(url, retries) ==
    [n \in 1..(2 * retries - 1) |->
        IF n % 2 = 1
        THEN [ev |-> "GET", url |-> url]
        ELSE [ev |-> "sleep", ms |-> 1000 * 2^((n \div 2) - 1)]]

\* C2: when every attempt of fetchWithRetry(url, retries), retries >= 1,
\* fails, whatever the kinds of failure, the call ends by throwing the last
\* attempt's failure, after exactly `retries` GETs, each but the last
\* followed by a sleep of 1000 * 2^i ms, and no sleep after the last.
C2_ExhaustedRetries ==
    (fwrEnded(rcall) /\ \A k \in 1..Len(rlog) : rlog[k] \in FailureKinds) =>
        /\ rcall.pc = "thrown"
        /\ Len(rlog) = rcall.retries
        /\ rcall.error = rlog[Len(rlog)]
        /\ rcall.trace = ExhaustedTrace(rcall.url, rcall.retries)

\* a call with three attempts that failed in three different ways
C2_Witness ==
    /\ rcall.pc = "thrown"
    /\ rcall.retries = 3
    /\ rlog = <<"parse", "network", "status">>
    /\ Len(rcall.trace) = 5

SourceRank(y) ==
    CASE y.source = "defillama" -> 1
      [] y.source = "pendle"    -> 2
      [] OTHER                  -> 3

\* C3: in every GET response, data is the DeFiLlama adapter's records, then
\* the Pendle adapter's, then the Manual records, whatever the order in which
\* the adapters settled.
C3_MergeOrder ==
    (GetAnswered /\ responses[1].status = 200) =>
        /\ \A i \in 1..Len(Data) : \A j \in 1..Len(Data) :
              i < j => SourceRank(Data[i]) <= SourceRank(Data[j])
        /\ BySource(Data, "defillama") = outcomes[1].value[1]
        /\ BySource(Data, "pendle") = outcomes[2].value[1]
        /\ FromManual(Data) = getManualYieldData
        /\ Len(Data) = Len(outcomes[1].value[1]) + Len(outcomes[2].value[1]) + 3

\* the Pendle adapter settled before the DeFiLlama adapter, both with records
C3_Witness ==
    /\ GetAnswered
    /\ settleOrder = <<3, 2, 1>>
    /\ Len(BySource(Data, "defillama")) > 0
    /\ Len(BySource(Data, "pendle")) > 0

\* C4: a GET is answered only when all three adapter calls have settled: in
\* no state with a response is the DeFiLlama or the Pendle adapter still
\* fetching, parsing or sleeping.
C4_RespondsAfterAllSettled ==
    (method = "GET" /\ responses # <<>>) =>
        /\ defi.state = "done"
        /\ pendle.state = "done"
        /\ fwrEnded(defi.call)
        /\ fwrEnded(pendle.call)
        /\ \A k \in 1..3 : outcomes[k].status # "pending"

\* the DeFiLlama adapter failed first, the Pendle adapter went on through a
\* failed first chain to its second chain, and only then came the response
C4_Witness ==
    /\ GetAnswered
    /\ settleOrder = <<3, 1, 2>>
    /\ defi.call.pc = "thrown"
    /\ Len(pendle.ended) = 2
    /\ pendle.ended[1].pc = "thrown"
    /\ pendle.ended[2].pc = "returned"

\* both network sources are in total outage
NetworkOutage == defi.state = "done" /\ defi.call.pc = "thrown" /\ PendleOutage

\* C5 as stated: in a total outage the GET response is HTTP 200 with an empty
\* data list and zeroed statistics.
C5_OutageGivesEmptyData ==
    (GetAnswered /\ NetworkOutage) =>
        /\ responses[1].status = 200
        /\ Data = <<>>
        /\ ResponseStats.totalOpportunities = 0
        /\ ResponseStats.totalTVL = 0
        /\ ResponseStats.avgAPY.num = 0
        /\ ResponseStats.maxAPY = 0
        /\ ResponseStats.minAPY = 0
        /\ ResponseStats.sources = <<>>
        /\ ResponseStats.chains = <<>>

\* C5, amended: when every DeFiLlama and Pendle fetch fails, the GET response
\* is HTTP 200 whose data is exactly the three manual records and whose
\* statistics are those of the three: 3 opportunities, 416,000,000 of tvl,
\* avgAPY 37.25 / 3, maxAPY 23.5, minAPY 5.25, sources midas, gauntlet,
\* yieldfi and chains Ethereum, Multi-chain.
C5_OutageGivesManualData ==
    (GetAnswered /\ NetworkOutage) =>
        /\ responses[1].status = 200
        /\ Body.success = TRUE
        /\ Data = getManualYieldData
        /\ ResponseStats.totalOpportunities = 3
        /\ ResponseStats.totalTVL = 416000000
        /\ ResponseStats.avgAPY.num * 300 = 3725 * FixedPoint * ResponseStats.avgAPY.den
        /\ ResponseStats.maxAPY * 10 = 235 * FixedPoint
        /\ ResponseStats.minAPY * 100 = 525 * FixedPoint
        /\ ResponseStats.sources = <<"midas", "gauntlet", "yieldfi">>
        /\ ResponseStats.chains = <<"Ethereum", "Multi-chain">>

\* a GET answered after all nine upstream attempts failed
C5_Witness ==
    /\ GetAnswered
    /\ NetworkOutage
    /\ Len(pendle.ended) = 2
    /\ Len(defi.call.trace) = 5

\* the apy values of the response's data
DataApys == {Data[k].apy : k \in 1..Len(Data)}

C7_StatisticsOverData ==
    (GetAnswered /\ responses[1].status = 200) =>
        LET st == ResponseStats
        IN  /\ st.totalOpportunities = Len(Data)
            /\ st.totalTVL = Sum(Tvls(Data))
            /\ {st.sources[k] : k \in 1..Len(st.sources)}
                  = {Data[k].source : k \in 1..Len(Data)}
            /\ \A i \in 1..Len(st.sources) : \A j \in 1..Len(st.sources) :
                  st.sources[i] = st.sources[j] => i = j
            /\ {st.chains[k] : k \in 1..Len(st.chains)}
                  = {Data[k].chain : k \in 1..Len(Data)}
            /\ \A i \in 1..Len(st.chains) : \A j \in 1..Len(st.chains) :
                  st.chains[i] = st.chains[j] => i = j

\* a response in which a source and a chain occur more than once in data
C7_Witness ==
    /\ GetAnswered
    /\ responses[1].status = 200
    /\ Len(BySource(Data, "pendle")) >= 2
    /\ Len(BySource(Data, "defillama")) >= 2
    /\ Len(ResponseStats.chains) < Len(Data)
    /\ ResponseStats.totalTVL > 416000000

\* the records of the DeFiLlama adapter, once it has returned
DefiOutput == outcomes[1].value[1]

\* C8 as stated: the DeFiLlama adapter never returns a record whose apy
\* field, the upstream apy rounded to 2 decimals, is >= 200.
C8_NoApyFrom200 ==
    (defi.state = "done" /\ outcomes[1].status = "fulfilled") =>
        \A k \in 1..Len(DefiOutput) : DefiOutput[k].apy < 200 * FixedPoint

\* the indices of the pools of the upstream list that are flagged stablecoin
\* and have tvlUsd > 1,000,000 and apy < 200
Matching(list) ==
    {i \in 1..Len(list) :
        /\ list[i].stablecoin = TRUE
        /\ list[i].tvlUsd > 1000000
        /\ list[i].apy < 200 * FixedPoint}

\* the k-th smallest element of a set of numbers
Kth(S, k) == CHOOSE i \in S : Cardinality({j \in S : j <= i}) = k

\* C9: when the DeFiLlama fetch succeeds (with a body of the shape
\* { data: [...] }), the adapter's k-th record is made from the k-th matching
\* pool of the upstream list, for the first 30 matching pools and no more.
C9_FirstThirtyMatching ==
    (defi.state = "done" /\ defi.call.pc = "returned" /\ defiBody.shape = "ok") =>
        LET list == defiBody.list
            S == Matching(list)
        IN  /\ Len(DefiOutput) = Min(30, Cardinality(S))
            /\ Len(DefiOutput) <= 30
            /\ \A k \in 1..Len(DefiOutput) :
                  LET pool == list[Kth(S, k)]
                  IN  /\ DefiOutput[k].protocol = pool.project
                      /\ DefiOutput[k].stablecoin = pool.symbol
                      /\ DefiOutput[k].chain = pool.chain
                      /\ DefiOutput[k].tvl = pool.tvlUsd
                      /\ DefiOutput[k].tvl > 1000000
                      /\ pool.stablecoin = TRUE
                      /\ DefiOutput[k].source = "defillama"

\* more than 30 pools match, with pools that do not match among them
C9_Witness ==
    /\ defi.state = "done"
    /\ defi.call.pc = "returned"
    /\ defiBody.shape = "ok"
    /\ Cardinality(Matching(defiBody.list)) > 30
    /\ Cardinality(Matching(defiBody.list)) < Len(defiBody.list)
    /\ Len(DefiOutput) = 30

\* the records of the Pendle adapter for one chain
OfChain(chain) == SelectSeq(pendle.allYields, LAMBDA y : y.chain = chain.name)

\* C10: whatever the market lists, the Pendle adapter returns at most 5
\* records per configured chain, at most 10 in all, and every record comes
\* from a market of its chain whose underlying symbol contains "USD" and whose
\* active liquidity exceeds 1,000,000.
C10_PendleLimits ==
    (pendle.state = "done") =>
        /\ Len(pendle.allYields) <= 10
        /\ outcomes[2].value[1] = pendle.allYields
        /\ \A c \in 1..Len(Chains) : Len(OfChain(Chains[c])) <= 5
        /\ \A k \in 1..Len(pendle.allYields) :
              LET y == pendle.allYields[k]
              IN  \E c \in 1..Len(Chains) :
                    /\ y.chain = Chains[c].name
                    /\ pendleBody[Chains[c].id].shape = "ok"
                    /\ \E m \in 1..Len(pendleBody[Chains[c].id].list) :
                          LET market == pendleBody[Chains[c].id].list[m]
                          IN  /\ y.stablecoin = market.underlyingAsset.symbol
                              /\ y.tvl = market.totalActiveLiquidity
                              /\ Includes(y.stablecoin, <<"U","S","D">>)
                              /\ y.tvl > 1000000

\* both chains serve more than 5 matching markets, and markets that do not
\* match
C10_Witness ==
    /\ pendle.state = "done"
    /\ Len(pendle.allYields) = 10
    /\ \A c \in 1..Len(Chains) :
          /\ Len(SelectSeq(pendleBody[Chains[c].id].list, PendleKeep)) > 5
          /\ Len(SelectSeq(pendleBody[Chains[c].id].list, PendleKeep))
                < Len(pendleBody[Chains[c].id].list)

\* the markets of a chain that pass the Pendle filter, when its body has the
\* shape { results: [...] }
MatchingMarkets(id) ==
    IF pendleBody[id].shape = "ok"
    THEN SelectSeq(pendleBody[id].list,
                   LAMBDA m : /\ Includes(m.underlyingAsset.symbol, <<"U","S","D">>)
                              /\ m.totalActiveLiquidity > 1000000)
    ELSE <<>>

\* the first 5 matching markets of a chain
FirstMatching(id) == SubSeq(MatchingMarkets(id), 1, Min(5, Len(MatchingMarkets(id))))

\* none of the first 5 matching markets of a chain lacks its pt member
WellFormed(id) == \A m \in 1..Len(FirstMatching(id)) : FirstMatching(id)[m].pt # <<>>

RecordsOf(name) == SelectSeq(pendle.allYields, LAMBDA y : y.chain = name)

\* chain number c (1: Ethereum, 2: Arbitrum) failed, resp. delivered its markets
ChainFailed(c) == pendle.ended[c].pc = "thrown"
ChainDelivered(c, id) ==
    pendle.ended[c].pc = "returned" /\ pendleBody[id].shape = "ok" /\ WellFormed(id)

\* C11: in the Pendle adapter a chain whose fetch failed to the last attempt
\* contributes no record and does not abort the other chain, which is still
\* fetched and whose records (one per each of its first 5 matching markets)
\* are returned, whichever of the two chains fails.
C11_ChainIsolation ==
    (pendle.state = "done") =>
        /\ Len(pendle.ended) = 2
        /\ pendle.ended[1].id = 1
        /\ pendle.ended[2].id = 42161
        /\ ChainFailed(1) => RecordsOf("Ethereum") = <<>>
        /\ ChainFailed(2) => RecordsOf("Arbitrum") = <<>>
        /\ ChainDelivered(1, 1) =>
              /\ Len(RecordsOf("Ethereum")) = Len(FirstMatching(1))
              /\ \A k \in 1..Len(FirstMatching(1)) :
                    RecordsOf("Ethereum")[k].tvl = FirstMatching(1)[k].totalActiveLiquidity
        /\ ChainDelivered(2, 42161) =>
              /\ Len(RecordsOf("Arbitrum")) = Len(FirstMatching(42161))
              /\ \A k \in 1..Len(FirstMatching(42161)) :
                    RecordsOf("Arbitrum")[k].tvl
                        = FirstMatching(42161)[k].totalActiveLiquidity
        /\ outcomes[2] = [status |-> "fulfilled", value |-> <<pendle.allYields>>]

\* the Ethereum fetch failed three times and the Arbitrum records are returned
C11_Witness ==
    /\ pendle.state = "done"
    /\ ChainFailed(1)
    /\ ChainDelivered(2, 42161)
    /\ Len(RecordsOf("Arbitrum")) > 0
    /\ pendle.allYields = RecordsOf("Arbitrum")

\* no adapter has been called and no upstream request has been issued
NoAdapterInvoked ==
    /\ defi = DefiIdle
    /\ pendle = PendleIdle
    /\ outcomes = <<Pending, Pending, Pending>>
    /\ settleOrder = <<>>

\* C12: the handler dispatches on the method before doing any work: OPTIONS
\* is answered with 200 and no body, any method other than GET and OPTIONS
\* with 405 and { success: false, error: "Method not allowed" }, in both
\* cases without an adapter being invoked or a fetch issued; only GET reaches
\* the aggregation.
C12_MethodDispatch ==
    /\ (method # "GET") => NoAdapterInvoked
    /\ (method = "OPTIONS" /\ hpc = "done") =>
          /\ Len(responses) = 1
          /\ responses[1].status = 200
          /\ responses[1].json = <<>>
    /\ (method \notin {"GET", "OPTIONS"} /\ hpc = "done") =>
          /\ Len(responses) = 1
          /\ responses[1].status = 405
          /\ responses[1].json = << [success |-> FALSE, error |-> "Method not allowed"] >>
    /\ (method # "GET") => hpc \in {"start", "done"}
    /\ (method = "GET" /\ hpc # "start") => ~NoAdapterInvoked

\* a POST answered with 405
C12_Witness ==
    /\ method = "POST"
    /\ hpc = "done"
    /\ responses # <<>>
    /\ responses[1].status = 405
    /\ NoAdapterInvoked

\* the keywords as the claim lists them
LendingKeywords ==
    { <<"a","a","v","e">>, <<"c","o","m","p","o","u","n","d">>,
      <<"m","o","r","p","h","o">>, <<"e","u","l","e","r">>,
      <<"s","p","a","r","k">> }

DexKeywords ==
    { <<"u","n","i","s","w","a","p">>, <<"c","u","r","v","e">>,
      <<"b","a","l","a","n","c","e","r">>, <<"v","e","l","o","d","r","o","m","e">> }

\* a letter of the name at position k, whatever its case, is the letter c
SameLetter(x, c) == x = c \/ ToLowerChar(x) = c

\* the name contains the keyword, letter case ignored
Mentions(name, keyword) ==
    \E k \in 0..(Len(name) - Len(keyword)) :
        \A j \in 1..Len(keyword) : SameLetter(name[k + j], keyword[j])

\* C13: categorizeProtocol(name) is a function of the name with letter case
\* ignored: "Lending" when the name contains a lending keyword, otherwise
\* "Dex" when it contains a dex keyword, otherwise "Other"; a name with
\* keywords of both tables is "Lending".
C13_Categorize ==
    (cout # <<>>) =>
        /\ Len(cout) = 1
        /\ cout[1] =
             IF \E w \in LendingKeywords : Mentions(cname, w)
             THEN <<"L","e","n","d","i","n","g">>
             ELSE IF \E w \in DexKeywords : Mentions(cname, w)
                  THEN <<"D","e","x">>
                  ELSE <<"O","t","h","e","r">>
        /\ ((\E w \in LendingKeywords : Mentions(cname, w))
              /\ (\E w \in DexKeywords : Mentions(cname, w)))
           => cout[1] = <<"L","e","n","d","i","n","g">>

\* "CURVE SPARK": upper case, a dex keyword ahead of a lending keyword
C13_Witness ==
    /\ cname = <<"C","U","R","V","E"," ","S","P","A","R","K">>
    /\ cout = << <<"L","e","n","d","i","n","g">> >>

\* C14: every record in the data of a GET response has apy >= 0 and
\* tvl >= 0, whatever the upstream services report.
C14_NonNegativeRecords ==
    GetAnswered /\ responses[1].status = 200 =>
        \A k \in 1..Len(Data) : Data[k].apy >= 0 /\ Data[k].tvl >= 0

\* the stand-alone call has had a successful attempt: a success status and a
\* body that parsed
Succeeded == rserved # <<>>

\* the attempts that failed before it
FailedBefore == SelectSeq(rlog, LAMBDA o : o # "ok")

GetsOf(trace) == SelectSeq(trace, LAMBDA e : e.ev = "GET")
SleepsOf(trace) == SelectSeq(trace, LAMBDA e : e.ev = "sleep")

\* C15: fetchWithRetry stops at the first successful attempt: when attempt k
\* (counted from 0, k below the number of attempts allowed) is the first to
\* succeed, the call has returned that attempt's parsed body after exactly
\* k + 1 requests and k sleeps, the last event being the successful request,
\* and no further step of the call is possible.
C15_StopsAtFirstSuccess ==
    Succeeded =>
        LET k == Len(FailedBefore)
        IN  /\ Len(rserved) = 1
            /\ rlog = FailedBefore \o <<"ok">>
            /\ k < rcall.retries
            /\ rcall.pc = "returned"
            /\ rcall.value = rserved[1]
            /\ Len(GetsOf(rcall.trace)) = k + 1
            /\ Len(SleepsOf(rcall.trace)) = k
            /\ rcall.trace[Len(rcall.trace)] = [ev |-> "GET", url |-> rcall.url]
            /\ ~ENABLED NextRetry

\* the third of four attempts succeeds after two failures
C15_Witness ==
    /\ Succeeded
    /\ rcall.retries = 4
    /\ rlog = <<"status", "parse", "ok">>
    /\ rcall.pc = "returned"
    /\ rcall.value = rserved[1]
    /\ Len(rcall.trace) = 5

DefiStep == DefiFetchSettles \/ DefiJsonSettles \/ DefiWakes
PendleStep == PendleFetchSettles \/ PendleJsonSettles \/ PendleWakes

\* the adapter is between two attempts: in a backoff sleep, or at an attempt
\* after the first
Retrying(a) ==
    a.state = "running" /\ (a.call.pc = "sleep" \/ a.call.i > 0)

\* C16: a retry or backoff sleep suspends only the adapter it is in. An
\* adapter that has not finished can always take its next step, whatever the
\* position of the other one (asleep, retrying, finished); a step of one
\* adapter changes neither the other adapter's state nor its promise, and the
\* lists they build are separate.
C16_AdaptersIndependent ==
    /\ [](defi.state = "running" => ENABLED DefiStep)
    /\ [](pendle.state = "running" => ENABLED PendleStep)
    /\ [][(hpc = "await" /\ defi' # defi) =>
            /\ pendle' = pendle
            /\ outcomes'[2] = outcomes[2]
            /\ outcomes'[3] = outcomes[3]]_vars
    /\ [][(hpc = "await" /\ pendle' # pendle) =>
            /\ defi' = defi
            /\ outcomes'[1] = outcomes[1]
            /\ outcomes'[3] = outcomes[3]]_vars

\* DeFiLlama is in its second backoff sleep while Pendle, itself retrying
\* Arbitrum after Ethereum was fetched, has still a request to be answered
C16_Witness ==
    /\ defi.state = "running"
    /\ defi.call.pc = "sleep"
    /\ defi.call.i = 1
    /\ pendle.state = "running"
    /\ pendle.k = 2
    /\ pendle.call.pc = "fetch"
    /\ Retrying(pendle)
    /\ ENABLED PendleStep
    /\ ENABLED DefiStep

\* everything fetchPendleYields has done so far, in order: the requests and
\* sleeps of the calls that ended, then those of the call under way
PendleTrace ==
    LET past == [k \in 1..Len(pendle.ended) |-> pendle.ended[k].trace]
        now == IF pendle.state = "running" THEN pendle.call.trace ELSE <<>>
    IN  (IF Len(past) >= 1 THEN past[1] ELSE <<>>)
        \o (IF Len(past) >= 2 THEN past[2] ELSE <<>>)
        \o now

EthereumMarkets == [ev |-> "GET", url |-> <<"https://api-v2.pendle.finance/core/v1/", 1, "/markets">>]
ArbitrumMarkets == [ev |-> "GET", url |-> <<"https://api-v2.pendle.finance/core/v1/", 42161, "/markets">>]

\* C17: the Pendle adapter takes the chains strictly one after the other. A
\* request for Arbitrum is only ever made after the Ethereum call has ended
\* (returned, or thrown after its 3 requests and 2 sleeps), so that all of
\* Ethereum's requests and sleeps come before it; Ethereum's records come
\* before Arbitrum's in the output; and when the adapter returns Arbitrum has
\* been requested, whether Ethereum failed or not.
C17_ChainsInSequence ==
    LET log == PendleTrace
        arb == {k \in 1..Len(log) : log[k] = ArbitrumMarkets}
        eth == {k \in 1..Len(log) : log[k] = EthereumMarkets}
    IN  /\ (pendle.state # "idle") => (eth # {} /\ log[1] = EthereumMarkets)
        /\ (arb # {}) =>
              /\ Len(pendle.ended) >= 1
              /\ pendle.ended[1].id = 1
              /\ pendle.ended[1].pc \in {"returned", "thrown"}
              /\ \A a \in arb : a > Len(pendle.ended[1].trace)
              /\ \A a \in arb, e \in eth : e < a
              /\ eth \subseteq 1..Len(pendle.ended[1].trace)
        /\ (Len(pendle.ended) >= 1 /\ pendle.ended[1].pc = "thrown") =>
              /\ Len(GetsOf(pendle.ended[1].trace)) = 3
              /\ Len(SleepsOf(pendle.ended[1].trace)) = 2
              /\ arb # {}
        /\ \A i \in 1..Len(pendle.allYields), j \in 1..Len(pendle.allYields) :
              (pendle.allYields[i].chain = "Ethereum"
                 /\ pendle.allYields[j].chain = "Arbitrum") => i < j
        /\ (pendle.state = "done") => (arb # {} /\ Len(pendle.ended) = 2)

\* Ethereum answered at its second request, Arbitrum at its first, and both
\* have records in the output
C17_Witness ==
    /\ pendle.state = "done"
    /\ Len(pendle.ended[1].trace) = 3
    /\ pendle.ended[1].pc = "returned"
    /\ Len(pendle.ended[2].trace) = 1
    /\ RecordsOf("Ethereum") # <<>>
    /\ RecordsOf("Arbitrum") # <<>>
    /\ pendle.allYields = RecordsOf("Ethereum") \o RecordsOf("Arbitrum")

\* C18: per chain the Pendle adapter delivers all or nothing: the output holds
\* either one record for each of the chain's first 5 matching markets or no
\* record of the chain, also when a market entry is malformed.
C18_ChainAllOrNothing ==
    (pendle.state = "done") =>
        \A k \in 1..2 :
            LET id == <<1, 42161>>[k]
                name == <<"Ethereum", "Arbitrum">>[k]
            IN  \/ RecordsOf(name) = <<>>
                \/ Len(RecordsOf(name)) = Len(FirstMatching(id))

\* the last three entries of the data
LastThree(data) == SubSeq(data, Len(data) - 2, Len(data))

\* C19: every GET 200 response ends with the three manual records, midas,
\* gauntlet, yieldfi in that order, whatever the upstream services did; so
\* totalOpportunities >= 3, totalTVL >= 416,000,000, and the statistics are
\* never those of an empty record set (maxAPY is at least yieldfi's 23.5,
\* minAPY at most midas's 5.25, avgAPY a quotient by at least 3).
C19_ManualAlwaysLast ==
    (GetAnswered /\ responses[1].status = 200) =>
        /\ Len(Data) >= 3
        /\ LastThree(Data) = getManualYieldData
        /\ LastThree(Data)[1].source = "midas"
        /\ LastThree(Data)[2].source = "gauntlet"
        /\ LastThree(Data)[3].source = "yieldfi"
        /\ \A k \in 1..(Len(Data) - 3) : Data[k].source \notin ManualSources
        /\ ResponseStats.totalOpportunities >= 3
        /\ ResponseStats.totalTVL >= 416000000
        /\ ResponseStats.maxAPY >= 2350 * (FixedPoint \div 100)
        /\ ResponseStats.minAPY <= 525 * (FixedPoint \div 100)
        /\ ResponseStats.avgAPY.den >= 3
        /\ ResponseStats = Stats(Data)

\* a response with DeFiLlama and Pendle records ahead of the manual ones
C19_Witness ==
    /\ GetAnswered
    /\ responses[1].status = 200
    /\ Len(Data) > 5
    /\ Data[1].source = "defillama"
    /\ Data[Len(Data) - 3].source = "pendle"
    /\ LastThree(Data) = getManualYieldData
    /\ ResponseStats.totalTVL > 416000000

\* the requests and sleeps of the DeFiLlama adapter so far
DefiTrace == IF defi.state = "idle" THEN <<>> ELSE defi.call.trace

DefiLlamaPools == [ev |-> "GET", url |-> DefiUrl]

RequestsTo(trace, get) == Len(SelectSeq(trace, LAMBDA e : e = get))

\* C20: with every request eventually settling, every request to the handler
\* is eventually answered, by exactly one response; a GET makes at most 3
\* requests to DeFiLlama and at most 3 to each Pendle chain, 9 in all, with
\* at most 6 backoff sleeps; and once the response is sent nothing more
\* happens.
C20_AnswersOnceWithinBudget ==
    /\ <>[](hpc = "done" /\ Len(responses) = 1)
    /\ [](Len(responses) <= 1)
    /\ [](/\ RequestsTo(DefiTrace, DefiLlamaPools) <= 3
          /\ RequestsTo(PendleTrace, EthereumMarkets) <= 3
          /\ RequestsTo(PendleTrace, ArbitrumMarkets) <= 3
          /\ Len(GetsOf(DefiTrace)) + Len(GetsOf(PendleTrace)) <= 9
          /\ Len(SleepsOf(DefiTrace)) + Len(SleepsOf(PendleTrace)) <= 6)
    /\ [][responses = <<>>]_vars

\* a GET answered after all 9 requests and 6 sleeps
C20_Witness ==
    /\ GetAnswered
    /\ Len(responses) = 1
    /\ Len(GetsOf(DefiTrace)) + Len(GetsOf(PendleTrace)) = 9
    /\ Len(SleepsOf(DefiTrace)) + Len(SleepsOf(PendleTrace)) = 6

=============================================================================
